---- MODULE Spec2Model ----
(***************************************************************************)
(* 09_Detect_Model_Bias_Clarify.ipynb as a state machine.                  *)
(*                                                                         *)
(* The notebook's code cells run top to bottom; pc names the cell that     *)
(* runs next, and a cell that raises stops the run (pc = "error").  The    *)
(* external services (the pipeline-execution registry and the processing   *)
(* job of the bias analysis) move on their own between two cells.          *)
(***************************************************************************)
EXTENDS Naturals, Sequences, FiniteSets

\* ------------------------------------------------------------------ bounds
\* Status queries one run makes at most (the wait loop itself has no cap).
MaxQueries == 3
\* Executions the pipeline's registry holds at most.
MaxExecutions == 2

\* --------------------------------------------------------------- constants
\* time.sleep(30): the seconds slept in the except branch of the wait loop.
PollInterval == 30

\* The status the wait loop compares with.
Running == "Executing"
\* The statuses a job leaves no more.
Terminal == {"Succeeded", "Failed", "Stopped"}
\* JobStatus: {Pending, Running, Succeeded, Failed, Stopped}.
Statuses == {"Pending", Running} \cup Terminal

\* What the service may make of a job in status s.
NextStatuses(s) ==
    CASE s = "Pending" -> {Running, "Stopped"}
      [] s = Running   -> Terminal
      [] OTHER         -> {}

\* What one list_pipeline_executions call may do: raise, answer with a list
\* that has no entry, or answer with the registry's list.
Outcomes == {"raise", "empty", "list"}

\* A model's ARN as its "/"-separated parts: "arn:...:model/<name>".
ModelArn(name) == <<"arn:model", name>>

\* Step lists list_pipeline_execution_steps may answer with; Arn = <<>> for
\* a step that carries no model.
Step(name, arn) == [StepName |-> name, Arn |-> arn]
StepLists ==
    { <<>>,
      <<Step("Train", <<>>)>>,
      <<Step("Train", <<>>), Step("CreateModel", ModelArn("m1"))>>,
      <<Step("CreateModel", ModelArn("m2")), Step("Train", <<>>),
        Step("CreateModel", ModelArn("m1"))>> }

VARIABLES
    executions,                  \* service: the pipeline's executions, newest first
    jobStatus,                   \* service: the processing job's status, "none" before it exists
    pc,                          \* the cell that runs next
    errorCell,                   \* the cell that raised, "none" while none has
    executions_response,         \* the notebook's variable of that name
    pipeline_execution_status,   \* the notebook's variable of that name, "unset" at first
    pipeline_execution_arn,      \* the notebook's variable of that name, 0 = unset
    steps,                       \* steps["PipelineExecutionSteps"]
    stepsArn,                    \* the execution whose steps were listed, 0 before
    model_arn,                   \* the notebook's variable of that name, <<>> = unset
    pipeline_model_name,         \* the notebook's variable of that name, "unset" at first
    model_name,                  \* ModelConfig's model_name sent with the job, "unset" before
    latest_job,                  \* clarify_processor.latest_job, 0 = none
    job_name,                    \* run_post_training_bias_processing_job_name, 0 = unset
    waitStatus,                  \* the job's status when running_processor.wait returned
    reportListed,                \* !aws s3 ls $bias_report_output_path/ has run
    reportDownloaded,            \* !aws s3 cp --recursive ... has run
    createCalls,                 \* job-creation calls sent to the service
    answers,                     \* what each list_pipeline_executions call did, in order
    slept,                       \* seconds slept since the last call
    trackedArn                   \* the execution read at the first poll, 0 before

vars == <<executions, jobStatus, pc, errorCell, executions_response,
          pipeline_execution_status, pipeline_execution_arn, steps, stepsArn,
          model_arn, pipeline_model_name, model_name, latest_job, job_name, waitStatus,
          reportListed, reportDownloaded, createCalls, answers, slept,
          trackedArn>>

serviceVars == <<executions, jobStatus>>
pollVars == <<executions_response, pipeline_execution_status, answers,
              slept, trackedArn>>
stepVars == <<pipeline_execution_arn, steps, stepsArn, model_arn,
              pipeline_model_name>>
jobVars == <<model_name, latest_job, job_name, waitStatus,
             reportListed, reportDownloaded, createCalls>>

\* ------------------------------------------------------------------- Init
\* pipeline_name was stored by the notebook that started the pipeline, so the
\* registry holds one execution, in any status.
Init ==
    /\ \E s \in Statuses : executions = <<[arn |-> 1, status |-> s]>>
    /\ jobStatus = "none"
    /\ pc = "list_executions"
    /\ errorCell = "none"
    /\ executions_response = <<>>
    /\ pipeline_execution_status = "unset"
    /\ pipeline_execution_arn = 0
    /\ steps = <<>>
    /\ stepsArn = 0
    /\ model_arn = <<>>
    /\ pipeline_model_name = "unset"
    /\ model_name = "unset"
    /\ latest_job = 0
    /\ job_name = 0
    /\ waitStatus = "none"
    /\ reportListed = FALSE
    /\ reportDownloaded = FALSE
    /\ createCalls = 0
    /\ answers = <<>>
    /\ slept = 0
    /\ trackedArn = 0

\* ------------------------------------------------- the external services
\* The service registers a newer execution of the pipeline; the list it
\* returns is ordered newest first.
StartPipelineExecution ==
    /\ Len(executions) < MaxExecutions
    /\ executions' = <<[arn |-> Len(executions) + 1, status |-> "Pending"]>>
                        \o executions
    /\ UNCHANGED <<jobStatus, pc, errorCell>>
    /\ UNCHANGED <<pollVars, stepVars, jobVars>>

\* One execution moves on.
ExecutionProgress ==
    /\ \E i \in 1..Len(executions) :
         \E s \in NextStatuses(executions[i].status) :
            executions' = [executions EXCEPT ![i].status = s]
    /\ UNCHANGED <<jobStatus, pc, errorCell>>
    /\ UNCHANGED <<pollVars, stepVars, jobVars>>

\* The processing job moves on.
JobProgress ==
    /\ jobStatus \in Statuses
    /\ \E s \in NextStatuses(jobStatus) : jobStatus' = s
    /\ UNCHANGED <<executions, pc, errorCell>>
    /\ UNCHANGED <<pollVars, stepVars, jobVars>>

\* ---------------------------------------------------- the wait-loop cell
\* sm.list_pipeline_executions(...)["PipelineExecutionSummaries"]
Response(outcome) == IF outcome = "list" THEN executions ELSE <<>>

\* The loop written to wait for success: it polls on after Failed or Stopped.
LoopConditionUntilSucceeded(status) == status # "Succeeded"

\* while pipeline_execution_status == "Executing":
LoopCondition(status) == status = Running

\* The index slip [-1] for [0]: the status of the list's last entry.
LastStatus(resp) == resp[Len(resp)].status

\* executions_response[0]["PipelineExecutionStatus"]
FirstStatus(resp) == resp[1].status

\* executions_response[0]["PipelineExecutionArn"]
FirstArn(resp) == resp[1].arn

\* The list_pipeline_executions calls made so far.
queries == Len(answers)

\* What a call with this outcome shows the notebook: the status of the
\* answer's first entry, or the failure.
Answer(outcome) ==
    IF outcome = "list" THEN FirstStatus(Response(outcome)) ELSE outcome

\* The first two statements of the cell, outside any try: an exception of the
\* call, or the IndexError of [0] on a list with no entry, ends the run.
ListPipelineExecutions ==
    /\ pc = "list_executions"
    /\ \E outcome \in Outcomes :
         /\ answers' = Append(answers, Answer(outcome))
         /\ slept' = 0
         /\ CASE outcome = "raise" ->
                   /\ pc' = "error"
                   /\ errorCell' = "list_executions"
                   /\ UNCHANGED <<executions_response,
                                  pipeline_execution_status, trackedArn>>
              [] outcome = "empty" ->
                   /\ executions_response' = Response(outcome)
                   /\ pc' = "error"
                   /\ errorCell' = "list_executions"
                   /\ UNCHANGED <<pipeline_execution_status, trackedArn>>
              [] OTHER ->
                   /\ executions_response' = Response(outcome)
                   /\ pipeline_execution_status' = FirstStatus(Response(outcome))
                   /\ trackedArn' = FirstArn(Response(outcome))
                   /\ pc' = "wait_loop"
                   /\ UNCHANGED errorCell
    /\ UNCHANGED <<serviceVars, stepVars, jobVars>>

\* One pass of the while body: the try block, and the except branch with its
\* sleep when the call raises or [0] finds no entry.
PollIteration ==
    /\ pc = "wait_loop"
    /\ LoopCondition(pipeline_execution_status)
    /\ queries < MaxQueries
    /\ \E outcome \in Outcomes :
         /\ answers' = Append(answers, Answer(outcome))
         /\ CASE outcome = "raise" ->
                   /\ slept' = PollInterval
                   /\ UNCHANGED <<executions_response,
                                  pipeline_execution_status>>
              [] outcome = "empty" ->
                   /\ executions_response' = Response(outcome)
                   /\ slept' = PollInterval
                   /\ UNCHANGED pipeline_execution_status
              [] OTHER ->
                   /\ executions_response' = Response(outcome)
                   /\ pipeline_execution_status' = FirstStatus(Response(outcome))
                   /\ slept' = 0
    /\ UNCHANGED <<serviceVars, pc, errorCell, trackedArn>>
    /\ UNCHANGED <<stepVars, jobVars>>

\* The while test fails; pprint(executions_response) ends the cell.
ExitLoop ==
    /\ pc = "wait_loop"
    /\ ~LoopCondition(pipeline_execution_status)
    /\ pc' = "read_status"
    /\ UNCHANGED <<serviceVars, errorCell>>
    /\ UNCHANGED <<pollVars, stepVars, jobVars>>

\* ------------------------------------------- the cells after the wait loop
\* pipeline_execution_status = executions_response[0]["PipelineExecutionStatus"]
ReadStatus ==
    /\ pc = "read_status"
    /\ IF executions_response = <<>>
       THEN /\ pc' = "error"
            /\ errorCell' = "read_status"
            /\ UNCHANGED pipeline_execution_status
       ELSE /\ pipeline_execution_status' = FirstStatus(executions_response)
            /\ pc' = "read_arn"
            /\ UNCHANGED errorCell
    /\ UNCHANGED <<executions_response, answers, slept, trackedArn>>
    /\ UNCHANGED <<serviceVars, stepVars, jobVars>>

\* pipeline_execution_arn = executions_response[0]["PipelineExecutionArn"]
ReadArn ==
    /\ pc = "read_arn"
    /\ IF executions_response = <<>>
       THEN /\ pc' = "error"
            /\ errorCell' = "read_arn"
            /\ UNCHANGED pipeline_execution_arn
       ELSE /\ pipeline_execution_arn' = FirstArn(executions_response)
            /\ pc' = "list_steps"
            /\ UNCHANGED errorCell
    /\ UNCHANGED <<steps, stepsArn, model_arn, pipeline_model_name>>
    /\ UNCHANGED <<serviceVars, pollVars, jobVars>>

\* steps = sm.list_pipeline_execution_steps(PipelineExecutionArn=...)
ListSteps ==
    /\ pc = "list_steps"
    /\ \E l \in StepLists : steps' = l
    /\ stepsArn' = pipeline_execution_arn
    /\ pc' = "view_model"
    /\ UNCHANGED <<pipeline_execution_arn, model_arn, pipeline_model_name,
                   errorCell>>
    /\ UNCHANGED <<serviceVars, pollVars, jobVars>>

\* The for loop without its break: the index of the last step named
\* CreateModel, 0 when the list has none.
LastCreateModel(l) ==
    IF \E i \in 1..Len(l) : l[i].StepName = "CreateModel"
    THEN CHOOSE i \in 1..Len(l) :
            /\ l[i].StepName = "CreateModel"
            /\ \A j \in (i + 1)..Len(l) : l[j].StepName # "CreateModel"
    ELSE 0

\* The for loop with its break: the index of the first step named
\* CreateModel, 0 when the list has none.
FirstCreateModel(l) ==
    IF \E i \in 1..Len(l) : l[i].StepName = "CreateModel"
    THEN CHOOSE i \in 1..Len(l) :
            /\ l[i].StepName = "CreateModel"
            /\ \A j \in 1..(i - 1) : l[j].StepName # "CreateModel"
    ELSE 0

\* model_arn.split("/")[-1]
LastPart(arn) == arn[Len(arn)]

\* The View Created Model cell: without a CreateModel step model_arn was
\* never assigned and print(model_arn) raises NameError.
ViewModel ==
    /\ pc = "view_model"
    /\ IF FirstCreateModel(steps) = 0
       THEN /\ pc' = "error"
            /\ errorCell' = "view_model"
            /\ UNCHANGED <<model_arn, pipeline_model_name>>
       ELSE /\ model_arn' = steps[FirstCreateModel(steps)].Arn
            /\ pipeline_model_name' =
                  LastPart(steps[FirstCreateModel(steps)].Arn)
            /\ pc' = "submit"
            /\ UNCHANGED errorCell
    /\ UNCHANGED <<pipeline_execution_arn, steps, stepsArn>>
    /\ UNCHANGED <<serviceVars, pollVars, jobVars>>

\* -------------------------------------------------- the bias-analysis job
\* The call with wait left at its default (True): it returns when the job
\* has reached a terminal status.
RunPostTrainingBiasWaiting ==
    /\ pc = "submit"
    /\ createCalls' = createCalls + 1
    /\ model_name' = pipeline_model_name
    /\ \E accepted \in BOOLEAN :
         IF accepted
         THEN /\ \E s \in Terminal : jobStatus' = s
              /\ latest_job' = createCalls + 1
              /\ pc' = "job_name"
              /\ UNCHANGED errorCell
         ELSE /\ pc' = "error"
              /\ errorCell' = "submit"
              /\ UNCHANGED <<jobStatus, latest_job>>
    /\ UNCHANGED <<job_name, waitStatus, reportListed, reportDownloaded>>
    /\ UNCHANGED <<executions, pollVars, stepVars>>

\* clarify_processor.run_post_training_bias(..., wait=False, logs=False): one
\* job-creation call; the service accepts it (the job exists, Pending) or
\* rejects it (the call raises).  It does not wait for the job.
RunPostTrainingBias ==
    /\ pc = "submit"
    /\ createCalls' = createCalls + 1
    /\ model_name' = pipeline_model_name
    /\ \E accepted \in BOOLEAN :
         IF accepted
         THEN /\ jobStatus' = "Pending"
              /\ latest_job' = createCalls + 1
              /\ pc' = "job_name"
              /\ UNCHANGED errorCell
         ELSE /\ pc' = "error"
              /\ errorCell' = "submit"
              /\ UNCHANGED <<jobStatus, latest_job>>
    /\ UNCHANGED <<job_name, waitStatus,
                   reportListed, reportDownloaded>>
    /\ UNCHANGED <<executions, pollVars, stepVars>>

\* run_post_training_bias_processing_job_name = clarify_processor.latest_job.job_name
JobName ==
    /\ pc = "job_name"
    /\ job_name' = latest_job
    /\ pc' = "describe"
    /\ UNCHANGED <<model_name, latest_job, waitStatus,
                   reportListed, reportDownloaded, createCalls, errorCell>>
    /\ UNCHANGED <<serviceVars, pollVars, stepVars>>

\* ProcessingJob.from_processing_name(...) and running_processor.describe():
\* the description is printed and kept nowhere the later cells read.
DescribeJob ==
    /\ pc = "describe"
    /\ pc' = "wait"
    /\ UNCHANGED <<model_name, latest_job, job_name, waitStatus, reportListed,
                   reportDownloaded, createCalls, errorCell>>
    /\ UNCHANGED <<serviceVars, pollVars, stepVars>>

\* The cell without its blocking: it goes on whatever the job's status.
ProcessorWaitNoBlock ==
    /\ pc = "wait"
    /\ waitStatus' = jobStatus
    /\ pc' = "ls"
    /\ UNCHANGED <<model_name, latest_job, job_name, reportListed, reportDownloaded,
                   createCalls, errorCell>>
    /\ UNCHANGED <<serviceVars, pollVars, stepVars>>

\* running_processor.wait(logs=False): blocks until the job is terminal.
ProcessorWait ==
    /\ pc = "wait"
    /\ jobStatus \in Terminal
    /\ waitStatus' = jobStatus
    /\ pc' = "ls"
    /\ UNCHANGED <<model_name, latest_job, job_name,
                   reportListed, reportDownloaded, createCalls, errorCell>>
    /\ UNCHANGED <<serviceVars, pollVars, stepVars>>

\* !aws s3 ls $bias_report_output_path/
ListReport ==
    /\ pc = "ls"
    /\ reportListed' = TRUE
    /\ pc' = "cp"
    /\ UNCHANGED <<model_name, latest_job, job_name,
                   waitStatus, reportDownloaded, createCalls, errorCell>>
    /\ UNCHANGED <<serviceVars, pollVars, stepVars>>

\* !aws s3 cp --recursive $bias_report_output_path ./generated_bias_report/
DownloadReport ==
    /\ pc = "cp"
    /\ reportDownloaded' = TRUE
    /\ pc' = "done"
    /\ UNCHANGED <<model_name, latest_job, job_name,
                   waitStatus, reportListed, createCalls, errorCell>>
    /\ UNCHANGED <<serviceVars, pollVars, stepVars>>

Next ==
    \/ StartPipelineExecution
    \/ ExecutionProgress
    \/ JobProgress
    \/ ListPipelineExecutions
    \/ PollIteration
    \/ ExitLoop
    \/ ReadStatus
    \/ ReadArn
    \/ ListSteps
    \/ ViewModel
    \/ RunPostTrainingBias
    \/ JobName
    \/ DescribeJob
    \/ ProcessorWait
    \/ ListReport
    \/ DownloadReport

Spec == Init /\ [][Next]_vars
\* ------------------------------------------------------------ properties
\* The wait-loop cell has ended without raising: the poller has returned.
PollerReturned ==
    /\ pc \notin {"list_executions", "wait_loop"}
    /\ errorCell # "list_executions"

\* Some call so far raised or answered with a list that has no entry.
SomeQueryFailed == \E i \in 1..Len(answers) : answers[i] \in {"raise", "empty"}

\* The stored status is the status of the stored payload's first entry.
StatusAgrees ==
    /\ executions_response # <<>>
    /\ pipeline_execution_status = executions_response[1].status

\* C1: whenever the poller has returned, the status it hands back is one of
\* the terminal values Succeeded, Failed, Stopped (it polls on while the
\* status is Running or Pending).
C1_ReturnsOnlyTerminal ==
    PollerReturned => pipeline_execution_status \in Terminal

\* C2: no status query that raises, whichever query of the sequence it is
\* (the first included), ends the run: the error is swallowed and the query
\* retried.
C2_TransientErrorsSwallowed ==
    (\E i \in 1..Len(answers) : answers[i] = "raise")
        => errorCell # "list_executions"

\* C3: no query follows an answer with a terminal status; and when no query
\* failed and the poller has returned with the terminal status T, the answers
\* were Running n times and then T, the queries were n + 1, and T is the
\* status returned.
C3_QueriesUntilTerminal ==
    /\ \A i \in 1..(Len(answers) - 1) : answers[i] \notin Terminal
    /\ (PollerReturned /\ ~SomeQueryFailed /\ answers[Len(answers)] \in Terminal)
         => /\ \A i \in 1..(Len(answers) - 1) : answers[i] = Running
            /\ pipeline_execution_status = answers[Len(answers)]
            /\ queries = Cardinality({i \in 1..Len(answers) : answers[i] = Running}) + 1

\* C3's case: Running, Running, Succeeded is answered by three queries and
\* Succeeded is returned.
C3_Witness ==
    /\ PollerReturned
    /\ answers = <<Running, Running, "Succeeded">>
    /\ pipeline_execution_status = "Succeeded"

\* C4: every status query but the first is made after a sleep of the poll
\* interval since the query before it, whether that one failed or answered
\* with a still-running status.
C4_WaitBetweenQueries ==
    [][(queries' > queries /\ queries > 0) => slept = PollInterval]_vars

\* C5: after any number of failed queries the poller has not given up: it is
\* still polling, or it has returned the status it observed last.
C5_NeverGivesUp ==
    SomeQueryFailed =>
        \/ pc = "wait_loop"
        \/ PollerReturned /\ pipeline_execution_status = answers[Len(answers)]

\* C6: the report is listed or downloaded only when the job has been
\* submitted, its handle obtained, and the wait on it has returned with a
\* terminal status.
C6_ReportAfterWait ==
    (reportListed \/ reportDownloaded) =>
        /\ createCalls = 1
        /\ latest_job # 0
        /\ job_name = latest_job
        /\ waitStatus \in Terminal
        /\ jobStatus = waitStatus

\* C6's case: the report has been listed and downloaded.
C6_Witness ==
    /\ pc = "done"
    /\ reportListed
    /\ reportDownloaded
    /\ waitStatus \in Terminal

\* C7: a run makes at most one job-creation call, made by the submit cell;
\* when the submit returns, the handle exists and the job has not finished;
\* nothing submits again, whatever the job's end.
C7_SingleSubmitNoWait ==
    [][/\ createCalls' <= 1
       /\ (createCalls' # createCalls =>
              pc = "submit" /\ createCalls' = createCalls + 1)
       /\ (pc = "submit" /\ pc' = "job_name" =>
              latest_job' # 0 /\ jobStatus' \in {"Pending", Running})]_vars

\* C7's case: the submit has returned while the job is still Pending.
C7_Witness ==
    /\ pc = "job_name"
    /\ createCalls = 1
    /\ latest_job = 1
    /\ jobStatus = "Pending"

\* C9: every answer stored, and the identifier read afterwards to list the
\* steps, is of the execution that was first in the list at the first poll.
C9_SameExecution ==
    /\ executions_response # <<>> => executions_response[1].arn = trackedArn
    /\ pipeline_execution_arn # 0 => pipeline_execution_arn = trackedArn

\* C10 as stated: after the first query the stored status is always the
\* status of the stored payload's first entry, and a query that fails (the
\* call raises, or the list has no first entry) leaves payload and status as
\* they were.
C10_StatusAgreesAlways ==
    [][/\ (queries' > 0 /\ pc' # "error") => StatusAgrees'
       /\ (queries' > queries /\ answers'[queries'] \in {"raise", "empty"})
            => UNCHANGED <<executions_response, pipeline_execution_status>>]_vars

\* C10 as amended: when the poller has returned, the stored status is the
\* status of the stored payload's first entry; a query whose call raises
\* leaves payload and status as they were; a query answered with a list that
\* has no first entry stores that empty list and leaves the status as it was.
C10_StatusAgreesOnReturn ==
    [][/\ PollerReturned' => StatusAgrees'
       /\ (queries' > queries /\ answers'[queries'] = "raise")
            => UNCHANGED <<executions_response, pipeline_execution_status>>
       /\ (queries' > queries /\ answers'[queries'] = "empty")
            => /\ executions_response' = <<>>
               /\ UNCHANGED pipeline_execution_status]_vars

\* C10's case: inside the loop a query was answered with an empty list; the
\* payload is that list and the status is still the one read before.
C10_Witness ==
    /\ pc = "wait_loop"
    /\ queries >= 2
    /\ answers[queries] = "empty"
    /\ executions_response = <<>>
    /\ pipeline_execution_status = Running
\* The indices of the listed steps named CreateModel.
CreateModelSteps == {i \in 1..Len(steps) : steps[i].StepName = "CreateModel"}

\* The steps have been listed and the model-lookup cell has run.
ModelLookedUp == stepsArn # 0 /\ pc # "view_model"

\* C11: the steps listed are those of the execution the last poll read; once
\* the lookup has run on a list with a CreateModel step, model_arn is the ARN
\* of the first such step and the model named in the job-creation call is
\* that ARN's model; on a list without a CreateModel step the run has stopped
\* with the error of the lookup cell and no job was or will be submitted.
C11_ModelIsFirstCreateModel ==
    /\ stepsArn # 0 =>
          /\ executions_response # <<>>
          /\ stepsArn = executions_response[1].arn
    /\ (ModelLookedUp /\ CreateModelSteps # {}) =>
          \E i \in CreateModelSteps :
             /\ \A j \in CreateModelSteps : i <= j
             /\ model_arn = steps[i].Arn
             /\ ModelArn(pipeline_model_name) = steps[i].Arn
    /\ createCalls > 0 =>
          /\ CreateModelSteps # {}
          /\ model_name = pipeline_model_name
    /\ (ModelLookedUp /\ CreateModelSteps = {}) =>
          /\ pc = "error"
          /\ errorCell = "view_model"
          /\ createCalls = 0
          /\ latest_job = 0
          /\ jobStatus = "none"

\* C11's case: the listed steps hold no CreateModel step and the run has
\* stopped at the lookup with no job submitted.
C11_Witness ==
    /\ steps = <<Step("Train", <<>>)>>
    /\ stepsArn # 0
    /\ pc = "error"
    /\ errorCell = "view_model"
    /\ createCalls = 0
====
